---- MODULE Spec2Model ----
(***************************************************************************)
(* Model of the edge FHIR hybrid detection service.                        *)
(*                                                                         *)
(*   src/app/server.py          startup (initialize_models) and the        *)
(*                              POST /fhir/notify handler (fhir_notify)    *)
(*   src/app/edge_model.py      HybridDeployedModel (RF + XGB ensemble)    *)
(*   src/app/cnn/trt_runtime.py create_cnn_runtime and the two backends    *)
(*   src/app/detector.py        EdgeDetector (score / severity / analyze)  *)
(*   TensorRTCNNRuntime.infer   called by several threads on one instance  *)
(*                                                                         *)
(* Floating point quantities (probabilities, confidences, reconstruction   *)
(* errors, thresholds) are integers in units of 1/1000.                    *)
(***************************************************************************)
EXTENDS Integers, Sequences, FiniteSets, TLC

\* ------------------------------------------------------------------------
\* Bounds of the model
\* ------------------------------------------------------------------------
MaxBadArtifacts == 1      \* artifacts that may be missing/malformed at startup
MaxAlerts == 1            \* alert records written before the run is cut off
MaxCallers == 2           \* threads calling infer on one backend instance
FeatureLen == 3           \* length of the vector extract_features returns
MaxReplays == 2           \* repetitions of the recorded request that are counted

\* ------------------------------------------------------------------------
\* Program constants
\* ------------------------------------------------------------------------
MSE_THRESHOLD_LOW == 50       \* 0.05
MSE_THRESHOLD_HIGH == 150     \* 0.15
ATTACK_CONFIDENCE == 700      \* 0.7
rf_weight == 5                \* 0.5, in tenths
xgb_weight == 5               \* 0.5, in tenths
SEV_HIGH == 950               \* 0.95
SEV_MED == 850                \* 0.85
USE_MOCK_MODEL == FALSE
NORMAL_CLASS == "Normal"
CNN_MODEL_PATH == "models/cnn_ae.onnx"

attack_classes == {"DDoS", "ScanPort", "Infiltration", "Malware"}
\* A variant of the suspicious set without the fallback label.
suspicious_classes_named_only == {"Suspicious", "Anomaly"}
suspicious_classes == {"Suspicious", "Anomaly", "Unknown"}

\* ------------------------------------------------------------------------
\* Input domains
\* ------------------------------------------------------------------------
Artifacts == {"rf_model.pkl", "xgb_model.pkl", "scaler.pkl",
              "feature_mask.npy", "label_encoder.pkl"}
ArtifactStates == {"ok", "missing", "malformed"}

\* Paths the backend factory may be given; the suffix decides the backend.
Paths == {"models/cnn_ae.onnx", "models/cnn_ae.engine", "models/cnn_ae.trt"}
Suffix(path) ==
    CASE path = "models/cnn_ae.onnx" -> ".onnx"
      [] path = "models/cnn_ae.engine" -> ".engine"
      [] path = "models/cnn_ae.trt" -> ".trt"

\* Label encoders an installation may ship (label_encoder.pkl contents).
ClassLists == { <<"Normal", "DDoS">>,
                <<"Normal", "Attack">>,
                <<"Benign", "DDoS", "Suspicious">> }

\* Probability levels of the tree ensembles' outputs (1/1000).
ProbLevels == {0, 100, 500, 900, 1000}
RECURSIVE SeqSum(_)
SeqSum(s) == IF s = <<>> THEN 0 ELSE Head(s) + SeqSum(Tail(s))
ProbVecs(n) == { v \in [1..n -> ProbLevels] : SeqSum(v) = 1000 }

\* Reconstruction errors the autoencoder backend may return (1/1000).
MseValues == {0, 2, 50, 51, 150, 200}

MetaValues == {"m1", "m2"}

\* What a tree ensemble's predict_proba does for one sample: raises, or
\* returns one probability per class it was trained on.
BackendOutcomes ==
    {[raises |-> TRUE, probs |-> <<>>]} \cup
    {[raises |-> FALSE, probs |-> v] :
        v \in ProbVecs(1) \cup ProbVecs(2) \cup ProbVecs(3)}

\* A StandardScaler fitted on n features (scaler.pkl contents).
StandardScaler(n) == [mean_ |-> [i \in 1..n |-> 2], scale_ |-> [i \in 1..n |-> 2]]

\* A boolean feature mask of length n (feature_mask.npy contents).
FeatureMask(n) == [i \in 1..n |-> i # 2]

\* The <<scaler, mask>> pairs an installation may ship: fitted on what
\* extract_features produces, fitted on one feature more, and a mask that
\* is one longer than what the scaler was fitted on.
Installations ==
    { <<StandardScaler(FeatureLen), FeatureMask(FeatureLen)>>,
      <<StandardScaler(FeatureLen + 1), FeatureMask(FeatureLen + 1)>>,
      <<StandardScaler(FeatureLen), FeatureMask(FeatureLen + 1)>> }

\* Vectors extract_features returns (always FeatureLen entries).
ExtractedFeatures ==
    { [i \in 1..FeatureLen |-> 2 * i],
      [i \in 1..FeatureLen |-> 2 * (FeatureLen - i)] }

\* Rows a caller of the library may pass to predict_proba.
RawVectors ==
    ExtractedFeatures \cup
    { [i \in 1..n |-> 2 * i] : n \in {FeatureLen - 1, FeatureLen + 1} }

\* What the autoencoder backend's compute_reconstruction_error does.
CnnOutcomes ==
    {[raises |-> TRUE, mse |-> 0]} \cup
    {[raises |-> FALSE, mse |-> m] : m \in MseValues}

\* ------------------------------------------------------------------------
\* State
\* ------------------------------------------------------------------------
VARIABLES
    artifacts,        \* models/<artifact> -> "ok" | "missing" | "malformed"
    classes_,         \* the label encoder's classes_ (label_encoder.pkl)
    scaler,           \* the fitted scaler (scaler.pkl)
    mask,             \* the boolean feature mask (feature_mask.npy)
    files,            \* autoencoder artifacts present on disk (subset of Paths)
    HAS_TENSORRT,     \* import tensorrt / pycuda succeeded
    HAS_ONNXRUNTIME,  \* import onnxruntime succeeded
    hybrid_model,     \* server.py global: "None" | "HybridDeployedModel"
    cnn_runtime,      \* server.py global: "None" | backend class name
    CNN_READY,        \* server.py global
    MODEL_READY,      \* server.py global
    pc,               \* "import" | "idle" | position inside fhir_notify
    req,              \* locals of the request being handled
    calls,            \* backend invocations made for the current request
    out,              \* outcome of the operation that completed last
    alert_log,        \* number of records in alerts.log
    d_inputs,         \* TensorRTCNNRuntime: content of device buffer d_inputs[0]
    d_outputs,        \* TensorRTCNNRuntime: content of device buffer d_outputs[0]
    infer_pc,         \* per caller: position inside TensorRTCNNRuntime.infer
    input_data,       \* per caller: the argument of its current infer call
    output,           \* per caller: the array its last infer call returned
    replay,           \* the request a replaying client repeats, if there is one
    replayed          \* history: repetitions answered so far, and the first answer

vars == <<artifacts, classes_, scaler, mask, files, HAS_TENSORRT, HAS_ONNXRUNTIME,
          hybrid_model, cnn_runtime, CNN_READY, MODEL_READY,
          pc, req, calls, out, alert_log,
          d_inputs, d_outputs, infer_pc, input_data, output,
          replay, replayed>>

device == <<d_inputs, d_outputs, infer_pc, input_data, output>>

env == <<artifacts, classes_, scaler, mask, files, HAS_TENSORRT, HAS_ONNXRUNTIME,
         replay>>
globals == <<hybrid_model, cnn_runtime, CNN_READY, MODEL_READY>>

NoResults == [present |-> FALSE, pred_class |-> "", pred_index |-> 0,
              confidence |-> 0, class_names |-> <<>>]
NoReq == [pred_class |-> "", confidence |-> 0, classifier_results |-> NoResults,
          classifier_raised |-> FALSE, transform_raised |-> FALSE,
          class_counts |-> <<0, 0>>, replays |-> FALSE,
          mse |-> 0, cnn_available |-> FALSE, cnn_raised |-> FALSE,
          is_anomaly |-> FALSE, severity |-> "", meta |-> ""]
\* No recorded request, and nothing replayed yet.
NoReplay == [recorded |-> FALSE]
NoReplayed == [count |-> 0, result |-> [op |-> "none"]]

\* Requests a client may have recorded: the body's metadata and features,
\* and what the (deterministic) backends do for exactly these features.
RecordedRequests ==
    { [recorded |-> TRUE, meta |-> "m1", features |-> [i \in 1..FeatureLen |-> 2 * i],
       rf |-> r, xgb |-> x, cnn |-> c] :
        r \in {[raises |-> TRUE, probs |-> <<>>],
                [raises |-> FALSE, probs |-> <<100, 900>>]},
        x \in {[raises |-> FALSE, probs |-> <<500, 500>>]},
        c \in {[raises |-> TRUE, mse |-> 0], [raises |-> FALSE, mse |-> 51]} }

NoCalls == [rf |-> 0, xgb |-> 0, cnn |-> 0, order |-> <<>>]
NoOut == [op |-> "none"]

\* ------------------------------------------------------------------------
\* edge_model.py
\* ------------------------------------------------------------------------
\* HybridDeployedModel.__init__: every artifact is loaded in turn; a missing
\* file raises FileNotFoundError, an unreadable one raises from the loader.
HybridDeployedModel_init ==
    IF \A a \in Artifacts : artifacts[a] = "ok" THEN "ok" ELSE "raise"

\* self.scaler.transform(X) for one row: sklearn rejects a row whose length
\* is not the number of features the scaler was fitted on.
scaler_transform(X) ==
    IF Len(X) # Len(scaler.mean_)
    THEN [raises |-> TRUE, X_scaled |-> <<>>]
    ELSE [raises |-> FALSE,
          X_scaled |-> [i \in 1..Len(X) |->
                          (X[i] - scaler.mean_[i]) \div scaler.scale_[i]]]

\* Boolean indexing row[m]: the entries at the True positions, in order.
RECURSIVE BooleanIndex(_, _)
BooleanIndex(row, m) ==
    IF row = <<>> THEN <<>>
    ELSE (IF Head(m) THEN <<Head(row)>> ELSE <<>>)
         \o BooleanIndex(Tail(row), Tail(m))

\* X_scaled[:, self.mask]: numpy raises IndexError when the mask's length is
\* not the row's length.
mask_select(X_scaled) ==
    IF Len(mask) # Len(X_scaled)
    THEN [raises |-> TRUE, X_selected |-> <<>>]
    ELSE [raises |-> FALSE, X_selected |-> BooleanIndex(X_scaled, mask)]

\* "Feature preprocessing" of predict_proba.
preprocess(X) ==
    IF scaler_transform(X).raises THEN [raises |-> TRUE, X_selected |-> <<>>]
    ELSE mask_select(scaler_transform(X).X_scaled)

Max(a, b) == IF a >= b THEN a ELSE b

\* numpy broadcasting of two (1, n) rows: equal lengths, or one of length 1.
Broadcastable(a, b) == Len(a) = Len(b) \/ Len(a) = 1 \/ Len(b) = 1
At(v, i) == IF Len(v) = 1 THEN v[1] ELSE v[i]

\* Variant of the fusion that adds the two rows without their weights.
ensemble_probs_unweighted(rf_probs, xgb_probs) ==
    [i \in 1..Max(Len(rf_probs), Len(xgb_probs)) |->
        At(rf_probs, i) + At(xgb_probs, i)]

\* predict_proba: the weighted average of the two ensembles' rows.
ensemble_probs(rf_probs, xgb_probs) ==
    [i \in 1..Max(Len(rf_probs), Len(xgb_probs)) |->
        (rf_weight * At(rf_probs, i) + xgb_weight * At(xgb_probs, i)) \div 10]

SeqMax(v) == CHOOSE m \in {v[i] : i \in 1..Len(v)} : \A i \in 1..Len(v) : v[i] <= m
\* A variant of np.argmax that answers the last index holding the maximum.
ArgMaxLast(v) == (CHOOSE i \in 1..Len(v) :
                     /\ v[i] = SeqMax(v)
                     /\ \A j \in (i + 1)..Len(v) : v[j] < v[i]) - 1
\* np.argmax: the first index holding the maximum (0-based, as in the code).
ArgMax(v) == (CHOOSE i \in 1..Len(v) :
                 /\ v[i] = SeqMax(v)
                 /\ \A j \in 1..(i - 1) : v[j] < v[i]) - 1

\* predict_with_confidence for one sample, given what the two ensembles do.
predict_with_confidence(rf, xgb) ==
    IF rf.raises \/ xgb.raises \/ ~Broadcastable(rf.probs, xgb.probs)
    THEN [raises |-> TRUE, pred_index |-> 0, confidence |-> 0]
    ELSE LET probs == ensemble_probs(rf.probs, xgb.probs)
         IN  [raises |-> FALSE, pred_index |-> ArgMax(probs),
              confidence |-> SeqMax(probs)]

\* HybridDeployedModel.predict_proba(X) for one row, given what the two
\* ensembles do with the selected features.
HybridDeployedModel_predict_proba(X, rf, xgb) ==
    LET pre == preprocess(X)
    IN  IF pre.raises
        THEN [op |-> "predict_proba", raises |-> TRUE, transform_raised |-> TRUE,
              X |-> X]
        ELSE IF rf.raises \/ xgb.raises \/ ~Broadcastable(rf.probs, xgb.probs)
        THEN [op |-> "predict_proba", raises |-> TRUE, transform_raised |-> FALSE,
              X |-> X, X_selected |-> pre.X_selected]
        ELSE [op |-> "predict_proba", raises |-> FALSE, transform_raised |-> FALSE,
              X |-> X, X_selected |-> pre.X_selected,
              rf_probs |-> rf.probs, xgb_probs |-> xgb.probs,
              ensemble_probs |-> ensemble_probs(rf.probs, xgb.probs),
              class_names |-> classes_]

\* HybridDeployedModel.predict_with_confidence(X) for one row: the fused
\* vector it took the index and the confidence from, and what it returns.
HybridDeployedModel_predict_with_confidence(X, rf, xgb) ==
    LET p == HybridDeployedModel_predict_proba(X, rf, xgb)
        r == predict_with_confidence(rf, xgb)
    IN  IF p.raises
        THEN [op |-> "predict_with_confidence", raises |-> TRUE]
        ELSE [op |-> "predict_with_confidence", raises |-> FALSE,
              probs |-> p.ensemble_probs,
              predicted_indices |-> r.pred_index,
              confidences |-> r.confidence,
              class_names |-> p.class_names]

\* A caller of the library asks for the class index and the confidence.
model_predict_with_confidence ==
    /\ pc = "model"
    /\ \E X \in RawVectors, rf \in BackendOutcomes, xgb \in BackendOutcomes :
         out' = HybridDeployedModel_predict_with_confidence(X, rf, xgb)
    /\ pc' = "model_returned"
    /\ UNCHANGED <<env, replayed, device, globals, req, calls, alert_log>>

\* A caller of the library gets the ensemble's probabilities for one row.
model_predict_proba ==
    /\ pc = "model"
    /\ \E X \in RawVectors, rf \in BackendOutcomes, xgb \in BackendOutcomes :
         out' = HybridDeployedModel_predict_proba(X, rf, xgb)
    /\ pc' = "model_returned"
    /\ UNCHANGED <<env, replayed, device, globals, req, calls, alert_log>>

\* ------------------------------------------------------------------------
\* cnn/trt_runtime.py
\* ------------------------------------------------------------------------
\* TensorRTCNNRuntime.__init__; `deserializes` is whether the engine file
\* deserializes into an engine on this device.
TensorRTCNNRuntime_init(engine_path, deserializes) ==
    IF ~HAS_TENSORRT THEN "RuntimeError"
    ELSE IF engine_path \notin files THEN "FileNotFoundError"
    ELSE IF ~deserializes THEN "RuntimeError"
    ELSE "ok"

\* ONNXRuntimeCNNFallback.__init__; `loads` is whether InferenceSession
\* accepts the graph.
ONNXRuntimeCNNFallback_init(onnx_path, loads) ==
    IF ~HAS_ONNXRUNTIME THEN "ImportError"
    ELSE IF onnx_path \notin files THEN "FileNotFoundError"
    ELSE IF ~loads THEN "RuntimeError"
    ELSE "ok"

\* create_cnn_runtime: the backend it returns, or "None".
create_cnn_runtime(engine_or_onnx_path, force_onnx, deserializes, loads) ==
    IF /\ ~force_onnx
       /\ Suffix(engine_or_onnx_path) \in {".trt", ".engine"}
       /\ HAS_TENSORRT
       /\ TensorRTCNNRuntime_init(engine_or_onnx_path, deserializes) = "ok"
    THEN "TensorRTCNNRuntime"
    ELSE IF HAS_ONNXRUNTIME /\ Suffix(engine_or_onnx_path) = ".onnx"
         THEN IF ONNXRuntimeCNNFallback_init(engine_or_onnx_path, loads) = "ok"
              THEN "ONNXRuntimeCNNFallback"
              ELSE "None"
         ELSE "None"

\* ------------------------------------------------------------------------
\* server.py
\* ------------------------------------------------------------------------
\* A variant that consults the reconstruction error before the attack label.
compute_severity_mse_first(pred_class, mse, confidence) ==
    IF CNN_READY /\ mse > MSE_THRESHOLD_HIGH THEN "HIGH"
    ELSE IF CNN_READY /\ mse > MSE_THRESHOLD_LOW THEN "MEDIUM"
    ELSE IF pred_class \in attack_classes /\ confidence > ATTACK_CONFIDENCE THEN "HIGH"
    ELSE IF pred_class \in suspicious_classes THEN "MEDIUM"
    ELSE "LOW"

\* compute_severity reads the global CNN_READY.
compute_severity(pred_class, mse, confidence) ==
    IF pred_class \in attack_classes /\ confidence > ATTACK_CONFIDENCE THEN "HIGH"
    ELSE IF CNN_READY /\ mse > MSE_THRESHOLD_HIGH THEN "HIGH"
    ELSE IF CNN_READY /\ mse > MSE_THRESHOLD_LOW THEN "MEDIUM"
    ELSE IF pred_class \in suspicious_classes THEN "MEDIUM"
    ELSE "LOW"

\* A variant of the decision that reads the label alone.
anomaly_decision_label_only(pred_class, cnn_available, mse) ==
    pred_class \in attack_classes

\* The "ANOMALY DECISION" expression of fhir_notify.
anomaly_decision(pred_class, cnn_available, mse) ==
    \/ pred_class \in attack_classes
    \/ (cnn_available /\ mse > MSE_THRESHOLD_HIGH)

\* initialize_models(), run once when the module is imported.
initialize_models ==
    /\ pc = "import"
    /\ IF HybridDeployedModel_init = "ok"
       THEN hybrid_model' = "HybridDeployedModel" /\ MODEL_READY' = TRUE
       ELSE hybrid_model' = "None" /\ MODEL_READY' = FALSE
    /\ IF CNN_MODEL_PATH \in files
       THEN \E deserializes \in BOOLEAN, loads \in BOOLEAN :
              LET runtime == create_cnn_runtime(CNN_MODEL_PATH, FALSE,
                                                deserializes, loads)
              IN  /\ cnn_runtime' = runtime
                  /\ CNN_READY' = TRUE
       ELSE cnn_runtime' = "None" /\ CNN_READY' = FALSE
    /\ pc' = "idle"
    /\ UNCHANGED <<env, replayed, device, req, calls, out, alert_log>>

Reply(status, error) ==
    [op |-> "fhir_notify", status |-> status, error |-> error]

\* The handler's states between feature extraction and the return.
InferencePcs == {"classifier", "cnn", "decide", "respond"}
\* The states of a server that has finished starting.
ServingPcs == {"idle"} \cup InferencePcs

\* Variant of the start of fhir_notify in which classifier_results is not
\* created afresh: the dictionary of the previous request is still there.
notify_receive_keeps_results ==
    /\ pc = "idle"
    /\ ~USE_MOCK_MODEL
    /\ alert_log < MaxAlerts
    /\ \E content \in {"not_json", "bad_body", "ok"},
          extraction \in {"raise", "ok"},
          meta \in MetaValues :
         /\ calls' = NoCalls
         /\ CASE content = "not_json" ->
                   /\ out' = Reply(415, "Content-Type must be application/json")
                   /\ pc' = "idle" /\ req' = NoReq
              [] content = "bad_body" ->
                   /\ out' = Reply(500, "internal_error")
                   /\ pc' = "idle" /\ req' = NoReq
              [] content = "ok" /\ extraction = "raise" ->
                   /\ out' = Reply(400, "Feature extraction failed")
                   /\ pc' = "idle" /\ req' = NoReq
              [] content = "ok" /\ extraction = "ok" ->
                   /\ out' = NoOut
                   /\ pc' = "classifier"
                   /\ req' = [NoReq EXCEPT
                                !.meta = meta,
                                !.replays = replay.recorded /\ meta = replay.meta,
                                !.classifier_results = req.classifier_results]
    /\ UNCHANGED <<env, replayed, device, globals, alert_log>>

\* fhir_notify, up to the end of feature extraction.
\*   content:    "not_json" (wrong content type), "bad_body" (a body the
\*               handler cannot read as a JSON object), "ok"
\*   extraction: whether extract_features raises
notify_receive ==
    /\ pc = "idle"
    /\ ~USE_MOCK_MODEL
    /\ alert_log < MaxAlerts
    /\ \E content \in {"not_json", "bad_body", "ok"},
          extraction \in {"raise", "ok"},
          meta \in MetaValues :
         /\ calls' = NoCalls
         /\ CASE content = "not_json" ->
                   /\ out' = Reply(415, "Content-Type must be application/json")
                   /\ pc' = "idle" /\ req' = NoReq
              [] content = "bad_body" ->
                   /\ out' = Reply(500, "internal_error")
                   /\ pc' = "idle" /\ req' = NoReq
              [] content = "ok" /\ extraction = "raise" ->
                   /\ out' = Reply(400, "Feature extraction failed")
                   /\ pc' = "idle" /\ req' = NoReq
              [] content = "ok" /\ extraction = "ok" ->
                   /\ out' = NoOut
                   /\ pc' = "classifier"
                   /\ req' = [NoReq EXCEPT
                                !.meta = meta,
                                !.replays = replay.recorded /\ meta = replay.meta]
    /\ UNCHANGED <<env, replayed, device, globals, alert_log>>

\* Label lookup class_names[pred_idx]: IndexError past the encoder's classes.
ClassName(pred_index) ==
    IF pred_index + 1 \in 1..Len(classes_)
    THEN [raises |-> FALSE, name |-> classes_[pred_index + 1]]
    ELSE [raises |-> TRUE, name |-> ""]

\* The "CLASSIFIER" block of fhir_notify.
notify_classifier ==
    /\ pc = "classifier"
    /\ IF MODEL_READY
       THEN \E features \in ExtractedFeatures :
            IF preprocess(features).raises
            THEN /\ calls' = calls
                 /\ req' = [req EXCEPT
                              !.pred_class = "Unknown",
                              !.confidence = 0,
                              !.classifier_raised = TRUE,
                              !.transform_raised = TRUE,
                              !.replays = @ /\ features = replay.features]
            ELSE
            \E rf \in BackendOutcomes, xgb \in BackendOutcomes :
              LET r == predict_with_confidence(rf, xgb)
                  made == IF rf.raises THEN <<"rf">> ELSE <<"rf", "xgb">>
                  ok == ~r.raises /\ ~ClassName(r.pred_index).raises
                  counts == <<Len(rf.probs),
                              IF rf.raises THEN 0 ELSE Len(xgb.probs)>>
                  same == /\ req.replays /\ features = replay.features
                          /\ rf = replay.rf /\ xgb = replay.xgb
              IN  /\ calls' = [calls EXCEPT !.rf = @ + 1,
                                            !.xgb = @ + (IF rf.raises THEN 0 ELSE 1),
                                            !.order = @ \o made]
                  /\ req' = IF ok
                            THEN [req EXCEPT
                                    !.pred_class = ClassName(r.pred_index).name,
                                    !.confidence = r.confidence,
                                    !.class_counts = counts,
                                    !.replays = same,
                                    !.classifier_results =
                                        [present |-> TRUE,
                                         pred_class |-> ClassName(r.pred_index).name,
                                         pred_index |-> r.pred_index,
                                         confidence |-> r.confidence,
                                         class_names |-> classes_]]
                            ELSE [req EXCEPT
                                    !.pred_class = "Unknown",
                                    !.confidence = 0,
                                    !.class_counts = counts,
                                    !.replays = same,
                                    !.classifier_raised = TRUE]
       ELSE /\ req' = [req EXCEPT !.pred_class = "Unknown", !.confidence = 0]
            /\ calls' = calls
    /\ pc' = "cnn"
    /\ UNCHANGED <<env, replayed, device, globals, out, alert_log>>

\* cnn_runtime.compute_reconstruction_error inside the handler's try block:
\* an attribute error when the global holds no backend object, otherwise
\* whatever the backend does.
reconstruction(backend) ==
    IF cnn_runtime = "None" THEN [raises |-> TRUE, mse |-> 0] ELSE backend

\* Variant of cnn_locals whose except branch forgets to clear cnn_available.
cnn_locals_keeps_available(r) ==
    IF r.raises THEN [mse |-> 0, cnn_available |-> TRUE]
    ELSE [mse |-> r.mse, cnn_available |-> TRUE]

\* The locals the "ANOMALY DETECTION" block leaves, given what the call did.
cnn_locals(r) ==
    IF r.raises THEN [mse |-> 0, cnn_available |-> FALSE]
    ELSE [mse |-> r.mse, cnn_available |-> TRUE]

\* Variant of the "ANOMALY DETECTION" block whose except branch also marks
\* the backend as not ready for the requests to come.
notify_cnn_marks_backend_down ==
    /\ pc = "cnn"
    /\ IF CNN_READY
       THEN \E backend \in CnnOutcomes :
              LET r == reconstruction(backend)
              IN  /\ calls' = IF cnn_runtime = "None" THEN calls
                              ELSE [calls EXCEPT !.cnn = @ + 1,
                                                 !.order = @ \o <<"cnn">>]
                  /\ req' = [req EXCEPT
                               !.mse = cnn_locals(r).mse,
                               !.cnn_available = cnn_locals(r).cnn_available,
                               !.cnn_raised = cnn_runtime # "None" /\ r.raises,
                               !.replays = @ /\ backend = replay.cnn]
                  /\ CNN_READY' = ~r.raises
       ELSE /\ req' = [req EXCEPT !.mse = 0, !.cnn_available = FALSE]
            /\ calls' = calls
            /\ CNN_READY' = CNN_READY
    /\ pc' = "decide"
    /\ UNCHANGED <<env, replayed, device, hybrid_model, cnn_runtime, MODEL_READY,
                   out, alert_log>>

\* Variant of the "ANOMALY DETECTION" block that tries the backend again
\* after it raised, instead of going on without it.
notify_cnn_retries ==
    /\ pc = "cnn"
    /\ IF CNN_READY
       THEN \E backend \in CnnOutcomes :
              LET r == reconstruction(backend)
              IN  /\ calls' = IF cnn_runtime = "None" THEN calls
                              ELSE [calls EXCEPT !.cnn = @ + 1,
                                                 !.order = @ \o <<"cnn">>]
                  /\ req' = [req EXCEPT
                               !.mse = cnn_locals(r).mse,
                               !.cnn_available = cnn_locals(r).cnn_available,
                               !.cnn_raised = cnn_runtime # "None" /\ r.raises,
                               !.replays = @ /\ backend = replay.cnn]
                  /\ pc' = IF cnn_runtime # "None" /\ r.raises THEN "cnn"
                           ELSE "decide"
       ELSE /\ req' = [req EXCEPT !.mse = 0, !.cnn_available = FALSE]
            /\ calls' = calls
            /\ pc' = "decide"
    /\ UNCHANGED <<env, replayed, device, globals, out, alert_log>>

\* The "ANOMALY DETECTION" block of fhir_notify.
notify_cnn ==
    /\ pc = "cnn"
    /\ IF CNN_READY
       THEN \E backend \in CnnOutcomes :
              LET r == reconstruction(backend)
              IN  /\ calls' = IF cnn_runtime = "None" THEN calls
                              ELSE [calls EXCEPT !.cnn = @ + 1,
                                                 !.order = @ \o <<"cnn">>]
                  /\ req' = [req EXCEPT
                               !.mse = cnn_locals(r).mse,
                               !.cnn_available = cnn_locals(r).cnn_available,
                               !.cnn_raised = cnn_runtime # "None" /\ r.raises,
                               !.replays = @ /\ backend = replay.cnn]
       ELSE /\ req' = [req EXCEPT !.mse = 0, !.cnn_available = FALSE]
            /\ calls' = calls
    /\ pc' = "decide"
    /\ UNCHANGED <<env, replayed, device, globals, out, alert_log>>

\* "ANOMALY DECISION" and "SEVERITY".
notify_decide ==
    /\ pc = "decide"
    /\ req' = [req EXCEPT
                 !.is_anomaly = anomaly_decision(req.pred_class,
                                                 req.cnn_available, req.mse),
                 !.severity = compute_severity(req.pred_class, req.mse,
                                               req.confidence)]
    /\ pc' = "respond"
    /\ UNCHANGED <<env, replayed, device, globals, calls, out, alert_log>>

\* Variant of the response that reports the readiness flag of the
\* autoencoder backend instead of whether it ran for this request.
response_reports_cnn_ready ==
    [op |-> "fhir_notify", status |-> 200, error |-> "",
     pred |-> req.pred_class,
     score |-> req.confidence,
     sev |-> req.severity,
     anom |-> req.is_anomaly,
     meta |-> req.meta,
     classifier |-> req.classifier_results,
     cnn |-> [mse |-> req.mse, available |-> CNN_READY]]

\* The response dictionary of fhir_notify.
response ==
    [op |-> "fhir_notify", status |-> 200, error |-> "",
     pred |-> req.pred_class,
     score |-> req.confidence,
     sev |-> req.severity,
     anom |-> req.is_anomaly,
     meta |-> req.meta,
     classifier |-> req.classifier_results,
     cnn |-> [mse |-> req.mse, available |-> req.cnn_available]]

\* What instrumentation of the backends saw while the request ran.
observed ==
    [classifier_raised |-> req.classifier_raised,
     transform_raised |-> req.transform_raised,
     class_counts |-> req.class_counts,
     replays |-> req.replays,
     cnn_raised |-> req.cnn_raised,
     calls |-> calls]

\* A variant whose log_alert lets the failure of the write escape into the
\* handler's except branch.
notify_respond_write_failure_escapes ==
    /\ pc = "respond"
    /\ \E write_fails \in (IF req.is_anomaly THEN BOOLEAN ELSE {FALSE}) :
         /\ alert_log' = IF req.is_anomaly /\ ~write_fails
                          THEN alert_log + 1 ELSE alert_log
         /\ out' = IF write_fails
                    THEN Reply(500, "internal_error") @@ observed @@ [log_failed |-> TRUE]
                    ELSE response @@ observed @@ [log_failed |-> FALSE]
    /\ replayed' = replayed
    /\ pc' = "idle"
    /\ UNCHANGED <<env, device, globals, req, calls>>

\* "LOGGING" and the return: when the result is anomalous log_alert appends
\* one record unless the write fails, and swallows the failure (observed as
\* log_failed); then the handler returns the response built before.
notify_respond ==
    /\ pc = "respond"
    /\ \E write_fails \in (IF req.is_anomaly THEN BOOLEAN ELSE {FALSE}) :
         /\ alert_log' = IF req.is_anomaly /\ ~write_fails
                          THEN alert_log + 1 ELSE alert_log
         /\ out' = response @@ observed @@ [log_failed |-> write_fails]
    /\ replayed' = IF ~req.replays THEN replayed
                   ELSE [count |-> IF replayed.count < MaxReplays
                                   THEN replayed.count + 1 ELSE MaxReplays,
                         result |-> IF replayed.count = 0 THEN response
                                    ELSE replayed.result]
    /\ pc' = "idle"
    /\ UNCHANGED <<env, device, globals, req, calls>>

\* ------------------------------------------------------------------------
\* detector.py
\* ------------------------------------------------------------------------
\* Detector configurations: [normal_class, sev_high, sev_med]; the first is
\* config.py's default, the others are overrides through the environment.
DetectorConfigs ==
    { [normal_class |-> NORMAL_CLASS, sev_high |-> SEV_HIGH, sev_med |-> SEV_MED],
      [normal_class |-> NORMAL_CLASS, sev_high |-> 900, sev_med |-> 500],
      [normal_class |-> "Benign", sev_high |-> 500, sev_med |-> 900],
      [normal_class |-> "Suspicious", sev_high |-> SEV_HIGH, sev_med |-> SEV_MED] }

\* What model.predict(X) hands back to analyze: the (labels, probs) pair the
\* detector unpacks, or the bare index array of HybridDeployedModel.predict.
PredictOutputs ==
    {[shape |-> "array", label |-> "", probs |-> <<>>]} \cup
    {[shape |-> "pair", label |-> l, probs |-> v] :
        l \in {"Normal", "Benign", "DDoS"},
        v \in ProbVecs(2) \cup ProbVecs(3)}

IndexOf(seq, x) == CHOOSE i \in 1..Len(seq) : seq[i] = x /\ \A j \in 1..(i - 1) : seq[j] # x
InSeq(seq, x) == \E i \in 1..Len(seq) : seq[i] = x

\* EdgeDetector._score; `classes` is <<>> when the encoder has no classes_
\* and the ordinal indices stand in for it.
EdgeDetector_score(cfg, prob_vec, classes) ==
    IF InSeq(classes, cfg.normal_class) /\ IndexOf(classes, cfg.normal_class) <= Len(prob_vec)
    THEN 1000 - prob_vec[IndexOf(classes, cfg.normal_class)]
    ELSE 1000 - SeqMax(prob_vec)

\* Variant of _severity with strict comparisons.
EdgeDetector_severity_strict(cfg, score) ==
    IF score > cfg.sev_high THEN "HIGH"
    ELSE IF score > cfg.sev_med THEN "MEDIUM"
    ELSE "LOW"

\* EdgeDetector._severity
EdgeDetector_severity(cfg, score) ==
    IF score >= cfg.sev_high THEN "HIGH"
    ELSE IF score >= cfg.sev_med THEN "MEDIUM"
    ELSE "LOW"

\* Variant of the anomaly flag that ignores the severity.
EdgeDetector_is_anom_label_only(cfg, pred_label, sev) ==
    pred_label # cfg.normal_class

\* The anomaly flag of EdgeDetector.analyze.
EdgeDetector_is_anom(cfg, pred_label, sev) ==
    (pred_label # cfg.normal_class) \/ (sev # "LOW")

\* EdgeDetector.analyze(X, meta) on a detector built with cfg.
EdgeDetector_analyze(cfg, predicted, classes, meta) ==
    IF predicted.shape # "pair"
    THEN [op |-> "analyze", raises |-> TRUE, cfg |-> cfg]
    ELSE LET score == EdgeDetector_score(cfg, predicted.probs, classes)
             sev == EdgeDetector_severity(cfg, score)
         IN  [op |-> "analyze", raises |-> FALSE, cfg |-> cfg,
              pred |-> predicted.label,
              score |-> score,
              sev |-> sev,
              anom |-> EdgeDetector_is_anom(cfg, predicted.label, sev),
              meta |-> meta,
              prob_vec |-> predicted.probs,
              classes |-> classes]

\* A caller builds an EdgeDetector around a model and analyzes one sample.
detector_analyze ==
    /\ pc = "detector"
    /\ \E cfg \in DetectorConfigs, predicted \in PredictOutputs,
          has_classes \in BOOLEAN, meta \in MetaValues :
         out' = EdgeDetector_analyze(cfg, predicted,
                                     IF has_classes THEN classes_ ELSE <<>>, meta)
    /\ UNCHANGED <<env, replayed, device, globals, pc, req, calls, alert_log>>

\* ------------------------------------------------------------------------
\* cnn/trt_runtime.py as a program and as a library
\* ------------------------------------------------------------------------
\* One call of the factory by any caller.
factory_call ==
    /\ pc = "factory"
    /\ \E path \in Paths, force_onnx \in BOOLEAN,
          deserializes \in BOOLEAN, loads \in BOOLEAN :
         out' = [op |-> "create_cnn_runtime",
                 path |-> path, force_onnx |-> force_onnx,
                 deserializes |-> deserializes, loads |-> loads,
                 runtime |-> create_cnn_runtime(path, force_onnx,
                                                deserializes, loads)]
    /\ UNCHANGED <<env, replayed, device, globals, pc, req, calls, alert_log>>

\* The module's __main__ block: engine first, then the ONNX file, forced.
trt_runtime_main ==
    /\ pc = "factory"
    /\ \E deserializes \in BOOLEAN, loads \in BOOLEAN :
         LET first == IF "models/cnn_ae.engine" \in files
                      THEN create_cnn_runtime("models/cnn_ae.engine", FALSE,
                                              deserializes, loads)
                      ELSE "None"
             runtime == IF first = "None" /\ "models/cnn_ae.onnx" \in files
                        THEN create_cnn_runtime("models/cnn_ae.onnx", TRUE,
                                                deserializes, loads)
                        ELSE first
         IN  out' = [op |-> "__main__",
                     deserializes |-> deserializes, loads |-> loads,
                     runtime |-> runtime,
                     exit |-> IF runtime = "None" THEN 1 ELSE 0]
    /\ UNCHANGED <<env, replayed, device, globals, pc, req, calls, alert_log>>

\* ------------------------------------------------------------------------
\* cnn/trt_runtime.py: TensorRTCNNRuntime.infer under concurrent callers
\* ------------------------------------------------------------------------
\* Threads sharing one TensorRTCNNRuntime (the Flask server handles requests
\* on threads; the instance is the module global cnn_runtime).
Callers == 1..MaxCallers

\* Feature tensors, as opaque ids; 0 is a buffer nobody has written yet.
Tensors == {1, 2}

\* What the engine leaves in its output binding for a given input binding.
execute_async_v2(input_binding) == input_binding + 10

\* cuda.memcpy_htod_async(self.d_inputs[0], input_data, self.stream): the
\* caller's tensor goes to the one device input buffer of the instance.
infer_upload(t) ==
    /\ pc = "trt"
    /\ infer_pc[t] \in {"idle", "returned"}
    /\ \E x \in Tensors :
         /\ input_data' = [input_data EXCEPT ![t] = x]
         /\ d_inputs' = x
    /\ output' = [output EXCEPT ![t] = 0]
    /\ infer_pc' = [infer_pc EXCEPT ![t] = "uploaded"]
    /\ UNCHANGED <<env, replayed, globals, pc, req, calls, out, alert_log, d_outputs>>

\* self.context.execute_async_v2(...); self.stream.synchronize()
infer_execute(t) ==
    /\ pc = "trt"
    /\ infer_pc[t] = "uploaded"
    /\ d_outputs' = execute_async_v2(d_inputs)
    /\ infer_pc' = [infer_pc EXCEPT ![t] = "executed"]
    /\ UNCHANGED <<env, replayed, globals, pc, req, calls, out, alert_log,
                   d_inputs, input_data, output>>

\* cuda.memcpy_dtoh_async(output, self.d_outputs[0], self.stream);
\* self.stream.synchronize(); return output
infer_download(t) ==
    /\ pc = "trt"
    /\ infer_pc[t] = "executed"
    /\ output' = [output EXCEPT ![t] = d_outputs]
    /\ infer_pc' = [infer_pc EXCEPT ![t] = "returned"]
    /\ UNCHANGED <<env, replayed, globals, pc, req, calls, out, alert_log,
                   d_inputs, d_outputs, input_data>>

\* ------------------------------------------------------------------------
\* Specification
\* ------------------------------------------------------------------------
ArtifactEnvs ==
    { a \in [Artifacts -> ArtifactStates] :
        Cardinality({x \in Artifacts : a[x] # "ok"}) <= MaxBadArtifacts }
AllOk == [a \in Artifacts |-> "ok"]

Fresh ==
    /\ hybrid_model = "None"
    /\ cnn_runtime = "None"
    /\ CNN_READY = FALSE
    /\ MODEL_READY = FALSE
    /\ req = NoReq
    /\ calls = NoCalls
    /\ out = NoOut
    /\ alert_log = 0
    /\ d_inputs = 0
    /\ d_outputs = 0
    /\ infer_pc = [t \in Callers |-> "idle"]
    /\ input_data = [t \in Callers |-> 0]
    /\ output = [t \in Callers |-> 0]
    /\ replayed = NoReplayed

\* python -m app.server on any installation.
InitServer ==
    /\ artifacts \in ArtifactEnvs
    /\ classes_ \in ClassLists
    /\ \E inst \in Installations : scaler = inst[1] /\ mask = inst[2]
    /\ files \in SUBSET {"models/cnn_ae.onnx", "models/cnn_ae.engine"}
    /\ HAS_TENSORRT \in BOOLEAN
    /\ HAS_ONNXRUNTIME \in BOOLEAN
    /\ pc = "import"
    /\ replay = NoReplay
    /\ Fresh

\* A process that wraps a loaded model in an EdgeDetector.
InitDetector ==
    /\ artifacts = AllOk
    /\ classes_ \in ClassLists
    /\ scaler = StandardScaler(FeatureLen)
    /\ mask = FeatureMask(FeatureLen)
    /\ files = {}
    /\ HAS_TENSORRT = FALSE
    /\ HAS_ONNXRUNTIME = FALSE
    /\ pc = "detector"
    /\ replay = NoReplay
    /\ Fresh

\* A process that only builds an autoencoder backend.
InitFactory ==
    /\ artifacts = AllOk
    /\ classes_ = <<"Normal", "DDoS">>
    /\ scaler = StandardScaler(FeatureLen)
    /\ mask = FeatureMask(FeatureLen)
    /\ files \in SUBSET Paths
    /\ HAS_TENSORRT \in BOOLEAN
    /\ HAS_ONNXRUNTIME \in BOOLEAN
    /\ pc = "factory"
    /\ replay = NoReplay
    /\ Fresh

\* A process whose threads share one TensorRTCNNRuntime built from an engine.
InitTrt ==
    /\ artifacts = AllOk
    /\ classes_ = <<"Normal", "DDoS">>
    /\ scaler = StandardScaler(FeatureLen)
    /\ mask = FeatureMask(FeatureLen)
    /\ files = {"models/cnn_ae.engine"}
    /\ HAS_TENSORRT = TRUE
    /\ HAS_ONNXRUNTIME = FALSE
    /\ pc = "trt"
    /\ replay = NoReplay
    /\ Fresh

\* A process that has constructed a HybridDeployedModel and calls it.
InitModel ==
    /\ artifacts = AllOk
    /\ classes_ \in ClassLists
    /\ \E inst \in Installations : scaler = inst[1] /\ mask = inst[2]
    /\ files = {}
    /\ HAS_TENSORRT = FALSE
    /\ HAS_ONNXRUNTIME = FALSE
    /\ pc = "model"
    /\ replay = NoReplay
    /\ Fresh

\* python -m app.server on a complete installation, with a client that
\* repeats one recorded request among its other requests.
InitReplay ==
    /\ artifacts = AllOk
    /\ classes_ = <<"Normal", "DDoS">>
    /\ scaler = StandardScaler(FeatureLen)
    /\ mask = FeatureMask(FeatureLen)
    /\ files = {"models/cnn_ae.onnx"}
    /\ HAS_TENSORRT = FALSE
    /\ HAS_ONNXRUNTIME \in BOOLEAN
    /\ pc = "import"
    /\ replay \in RecordedRequests
    /\ Fresh

Init == InitServer \/ InitDetector \/ InitFactory \/ InitTrt \/ InitModel

Next ==
    \/ initialize_models
    \/ notify_receive
    \/ notify_classifier
    \/ notify_cnn
    \/ notify_decide
    \/ notify_respond
    \/ detector_analyze
    \/ factory_call
    \/ trt_runtime_main
    \/ \E t \in Callers : infer_upload(t)
    \/ \E t \in Callers : infer_execute(t)
    \/ \E t \in Callers : infer_download(t)
    \/ model_predict_proba
    \/ model_predict_with_confidence

Spec == Init /\ [][Next]_vars

\* The server alone, under the replaying client.
NextServer ==
    \/ initialize_models
    \/ notify_receive
    \/ notify_classifier
    \/ notify_cnn
    \/ notify_decide
    \/ notify_respond

SpecReplay == InitReplay /\ [][NextServer]_vars

\* python -m app.server on an installation that is complete or lacks the
\* random forest, serving requests on a thread that keeps running.
InitFair ==
    /\ artifacts \in {AllOk, [AllOk EXCEPT !["rf_model.pkl"] = "missing"]}
    /\ classes_ = <<"Normal", "DDoS">>
    /\ \E inst \in Installations : scaler = inst[1] /\ mask = inst[2]
    /\ files \in SUBSET {"models/cnn_ae.onnx"}
    /\ HAS_TENSORRT = FALSE
    /\ HAS_ONNXRUNTIME \in BOOLEAN
    /\ pc = "import"
    /\ replay = NoReplay
    /\ Fresh

\* Once fhir_notify has been entered, the thread running it goes on through
\* its blocks (a backend call returns or raises); nothing obliges a client to
\* send a request.
SpecFair ==
    /\ InitFair
    /\ [][NextServer]_vars
    /\ WF_vars(notify_classifier \/ notify_cnn \/ notify_decide \/ notify_respond)

\* ------------------------------------------------------------------------
\* Properties
\* ------------------------------------------------------------------------
NotifyOk == out.op = "fhir_notify" /\ out.status = 200
AnalyzeOk == out.op = "analyze" /\ ~out.raises
Min(a, b) == IF a <= b THEN a ELSE b

\* The three-tier lookup of a score against a medium and a high threshold.
TierOf(score, medium, high) ==
    IF score >= high THEN "HIGH"
    ELSE IF score >= medium THEN "MEDIUM"
    ELSE "LOW"

\* C1 -- fast exit: a request whose anomaly score was computed and is below
\* the low threshold invoked neither tree ensemble and answers "Normal".
C1_FastExitSkipsClassifiers ==
    (NotifyOk /\ out.cnn.available /\ out.cnn.mse < MSE_THRESHOLD_LOW)
        => (out.calls.rf = 0 /\ out.calls.xgb = 0 /\ out.pred = "Normal")

\* C2 (as claimed) -- in every result of either pipeline the severity is the
\* threshold tier of the raw anomaly score, whatever the label and confidence.
C2_SeverityFromScoreOnly ==
    /\ (NotifyOk /\ out.cnn.available) =>
           out.sev = TierOf(out.cnn.mse, MSE_THRESHOLD_LOW, MSE_THRESHOLD_HIGH)
    /\ AnalyzeOk => out.sev = TierOf(out.score, out.cfg.sev_med, out.cfg.sev_high)

\* C2 (amended) -- in every EdgeDetector result the severity is HIGH iff
\* score >= sev_high, MEDIUM iff sev_med <= score < sev_high, and LOW
\* otherwise, for every predicted label and probability vector.
C2_DetectorSeverityFromScore ==
    AnalyzeOk =>
        /\ out.sev \in {"LOW", "MEDIUM", "HIGH"}
        /\ (out.sev = "HIGH") <=> (out.score >= out.cfg.sev_high)
        /\ (out.sev = "MEDIUM") <=>
               (out.cfg.sev_med <= out.score /\ out.score < out.cfg.sev_high)

\* C2 witness: a detector result for an attack label whose score sits exactly
\* on the high threshold.
C2_Witness ==
    /\ AnalyzeOk /\ out.pred = "DDoS" /\ out.cfg.sev_med < out.cfg.sev_high
    /\ out.score = out.cfg.sev_high /\ out.sev = "HIGH"

\* C3 (as claimed) -- in every result of either pipeline the anomaly flag is
\* (label # normal class) or (severity # LOW), the normal class being "Normal"
\* in the HTTP pipeline (for results whose classifiers ran) and the
\* configured one in the detector.
C3_AnomalyFlagRule ==
    /\ (NotifyOk /\ out.classifier.present) =>
           (out.anom <=> (out.pred # "Normal" \/ out.sev # "LOW"))
    /\ AnalyzeOk =>
           (out.anom <=> (out.pred # out.cfg.normal_class \/ out.sev # "LOW"))

\* C3 (amended) -- in every EdgeDetector result the anomaly flag is
\* (label # the configured normal class) or (severity # LOW): every MEDIUM or
\* HIGH result is flagged, a normal-class LOW result is not.
C3_DetectorAnomalyFlagRule ==
    AnalyzeOk =>
        /\ out.anom <=> (out.pred # out.cfg.normal_class \/ out.sev # "LOW")
        /\ out.sev \in {"MEDIUM", "HIGH"} => out.anom
        /\ (out.pred = out.cfg.normal_class /\ out.sev = "LOW") => ~out.anom

\* C3 witness: a normal-class detector result flagged through its severity.
C3_Witness ==
    AnalyzeOk /\ out.pred = out.cfg.normal_class /\ out.sev = "MEDIUM" /\ out.anom

\* C4 -- on the classification path the reported score is
\* min(1, aeScore + (1 - confidence) * 0.5).
C4_CombinedScore ==
    (NotifyOk /\ out.classifier.present /\ out.cnn.available
              /\ out.cnn.mse >= MSE_THRESHOLD_LOW)
        => out.score = Min(1000, out.cnn.mse
                                 + ((1000 - out.classifier.confidence) * 5) \div 10)

\* C5 -- on the fast-exit path the result is not anomalous, carries the
\* anomaly score as its score and has severity LOW.
C5_FastExitResult ==
    (NotifyOk /\ out.cnn.available /\ out.cnn.mse < MSE_THRESHOLD_LOW)
        => (~out.anom /\ out.score = out.cnn.mse /\ out.sev = "LOW")

\* C6 -- a request during which a backend raised is never answered with a
\* successful result.
C6_BackendErrorsSurface ==
    NotifyOk => (~out.classifier_raised /\ ~out.cnn_raised)

\* C7 -- the server never serves requests with the classifier model not
\* loaded: a failed construction is fatal to startup.
C7_StartupFatalOnLoadFailure ==
    pc \in ServingPcs => (MODEL_READY /\ hybrid_model = "HybridDeployedModel")

\* The anomaly backend is unavailable: its artifact is absent, or no backend
\* object was constructed.
AnomalyBackendUnavailable ==
    CNN_MODEL_PATH \notin files \/ cnn_runtime = "None"

\* C8 -- with the anomaly backend unavailable the classifier model still
\* loads whenever its own artifacts do, no request fails inside inference,
\* and every result reports mse 0 with the scorer marked unavailable.
C8_DegradesWithoutAnomalyBackend ==
    (pc \in ServingPcs /\ AnomalyBackendUnavailable) =>
        /\ (HybridDeployedModel_init = "ok") =>
               (MODEL_READY /\ hybrid_model = "HybridDeployedModel")
        /\ pc \in {"decide", "respond"} => (req.mse = 0 /\ ~req.cnn_available)
        /\ (out.op = "fhir_notify" /\ out.status # 200) =>
               out.error \in {"Content-Type must be application/json",
                              "internal_error", "Feature extraction failed"}
        /\ NotifyOk => (out.cnn.mse = 0 /\ ~out.cnn.available)

\* C8 witness: a successful response of a server whose readiness flag is set
\* although no backend object exists.
C8_Witness ==
    /\ NotifyOk /\ CNN_READY /\ cnn_runtime = "None"
    /\ out.cnn.mse = 0 /\ ~out.cnn.available /\ out.classifier.present

\* Whether the accelerated graph at `path` can be loaded at all.
AcceleratedLoads(path, deserializes) ==
    Suffix(path) \in {".trt", ".engine"} /\ path \in files /\ deserializes

\* C9 -- the factory returns the accelerated backend unless the caller forces
\* the portable path, the accelerated runtime is absent or the accelerated
\* graph fails to load; in those cases it returns the portable backend
\* whenever a portable artifact exists and the portable runtime can load it.
C9_BackendSelection ==
    out.op = "create_cnn_runtime" =>
        LET fallback == \/ out.force_onnx
                        \/ ~HAS_TENSORRT
                        \/ ~AcceleratedLoads(out.path, out.deserializes)
            portable == /\ "models/cnn_ae.onnx" \in files
                        /\ HAS_ONNXRUNTIME
                        /\ out.loads
        IN  /\ ~fallback => out.runtime = "TensorRTCNNRuntime"
            /\ (fallback /\ portable) => out.runtime = "ONNXRuntimeCNNFallback"

\* C10 -- the autoencoder readiness flag is set only if a backend object was
\* constructed.
C10_CnnReadyOnlyWithBackend ==
    pc \in ServingPcs => (CNN_READY => cnn_runtime # "None")

\* C11: calls of infer on one backend instance are mutually exclusive (no two
\* callers are between upload and download at once), and every call returns
\* the reconstruction of its own input.
C11_ExclusiveInference ==
    /\ Cardinality({t \in Callers : infer_pc[t] \in {"uploaded", "executed"}}) <= 1
    /\ \A t \in Callers :
         infer_pc[t] = "returned" => output[t] = execute_async_v2(input_data[t])

\* C12: a request in which the two classifiers return probability vectors of
\* different lengths does not end in a result, and no fused vector is made
\* of two such vectors.
C12_ClassCountMismatchFails ==
    /\ NotifyOk =>
         (out.class_counts[1] > 0 /\ out.class_counts[2] > 0
            => out.class_counts[1] = out.class_counts[2])
    /\ (out.op = "predict_proba" /\ ~out.raises) =>
         Len(out.rf_probs) = Len(out.xgb_probs)

\* The index of the k-th True entry of a boolean mask.
KthSelected(m, k) ==
    CHOOSE i \in 1..Len(m) :
        m[i] /\ Cardinality({j \in 1..i : m[j]}) = k
PopCount(m) == Cardinality({i \in 1..Len(m) : m[i]})
PredictProbaDone == out.op = "predict_proba"

\* C13: a row of the length the scaler was fitted on is transformed into a
\* row of popcount(mask) entries, the selected positions in their original
\* order; a row of any other length makes the transform fail, and a request
\* whose transform failed returns an error, not a result.
C13_Preprocessing ==
    /\ (PredictProbaDone /\ Len(mask) = Len(scaler.mean_)
           /\ Len(out.X) = Len(scaler.mean_)) =>
         /\ ~out.transform_raised
         /\ Len(out.X_selected) = PopCount(mask)
         /\ \A k \in 1..PopCount(mask) :
              out.X_selected[k] =
                  (out.X[KthSelected(mask, k)] - scaler.mean_[KthSelected(mask, k)])
                      \div scaler.scale_[KthSelected(mask, k)]
    /\ (PredictProbaDone /\ Len(out.X) # Len(scaler.mean_)) =>
         out.transform_raised
    /\ NotifyOk => ~out.transform_raised

\* C14: a model that was constructed has all its artifacts and a feature
\* mask that fits the scaler, so no such fault is left for an inference
\* call to run into.
C14_LoadErrorsAtConstruction ==
    hybrid_model # "None" =>
        /\ \A a \in Artifacts : artifacts[a] = "ok"
        /\ Len(mask) = Len(scaler.mean_)

\* C15: for two probability rows over the same classes the fused row is
\* rf_weight * rf + xgb_weight * xgb entry by entry, the weights add up to
\* one (0.5 each), and the fused row sums to one when both rows do.
C15_Fusion ==
    (PredictProbaDone /\ ~out.raises /\ Len(out.rf_probs) = Len(out.xgb_probs)) =>
        /\ rf_weight + xgb_weight = 10
        /\ rf_weight = 5 /\ xgb_weight = 5
        /\ Len(out.ensemble_probs) = Len(out.rf_probs)
        /\ \A i \in 1..Len(out.rf_probs) :
             10 * out.ensemble_probs[i] =
                 rf_weight * out.rf_probs[i] + xgb_weight * out.xgb_probs[i]
        /\ (SeqSum(out.rf_probs) = 1000 /\ SeqSum(out.xgb_probs) = 1000)
             => SeqSum(out.ensemble_probs) = 1000

\* A fusion of two different rows over three classes.
C15_Witness ==
    /\ PredictProbaDone /\ ~out.raises
    /\ Len(out.rf_probs) = 3 /\ Len(out.xgb_probs) = 3
    /\ out.rf_probs # out.xgb_probs
    /\ SeqSum(out.rf_probs) = 1000 /\ SeqSum(out.xgb_probs) = 1000

Severities == {"LOW", "MEDIUM", "HIGH"}

\* C16: every returned result has a score in [0, 1], a severity among LOW,
\* MEDIUM and HIGH, and (for the HTTP pipeline, whose labels come from the
\* encoder loaded at startup) a predicted label that is one of the encoder's
\* classes.
C16_WellFormedResult ==
    /\ NotifyOk =>
         /\ out.score \in 0..1000
         /\ out.sev \in Severities
         /\ InSeq(classes_, out.pred)
    /\ AnalyzeOk =>
         /\ out.score \in 0..1000
         /\ out.sev \in Severities

\* The order LOW < MEDIUM < HIGH.
Rank(sev) == CASE sev = "LOW" -> 0 [] sev = "MEDIUM" -> 1 [] sev = "HIGH" -> 2

\* Scores the detector's severity is compared at: every reachable score and
\* the thresholds in use.
ScoreSamples ==
    {1000 - p : p \in ProbLevels} \cup
    UNION {{cfg.sev_med, cfg.sev_high} : cfg \in DetectorConfigs}

\* C17: with the thresholds, the classifier output and the backend
\* availability of a returned result held fixed, a lower anomaly score never
\* gives a higher severity and a higher one never a lower severity, and the
\* tiers change exactly at the medium and the high threshold: a score at or
\* above the high threshold is HIGH, one at or above the medium threshold is
\* at least MEDIUM.
C17_SeverityMonotone ==
    /\ NotifyOk =>
         /\ \A m \in MseValues :
              /\ m <= out.cnn.mse =>
                    Rank(compute_severity(out.pred, m, out.score)) <= Rank(out.sev)
              /\ m >= out.cnn.mse =>
                    Rank(compute_severity(out.pred, m, out.score)) >= Rank(out.sev)
         /\ (out.cnn.available /\ out.cnn.mse >= MSE_THRESHOLD_HIGH)
              => out.sev = "HIGH"
         /\ (out.cnn.available /\ out.cnn.mse >= MSE_THRESHOLD_LOW)
              => out.sev \in {"MEDIUM", "HIGH"}
    /\ AnalyzeOk =>
         /\ \A x \in ScoreSamples :
              /\ x <= out.score =>
                    Rank(EdgeDetector_severity(out.cfg, x)) <= Rank(out.sev)
              /\ x >= out.score =>
                    Rank(EdgeDetector_severity(out.cfg, x)) >= Rank(out.sev)
         /\ out.score >= out.cfg.sev_high => out.sev = "HIGH"
         /\ (out.cfg.sev_med <= out.cfg.sev_high /\ out.score >= out.cfg.sev_med)
              => out.sev \in {"MEDIUM", "HIGH"}

\* C18: within a request the anomaly backend is invoked before any
\* classifier (no classifier call precedes the autoencoder call), and no
\* stage runs twice (each backend is invoked at most once).
C18_StageOrder ==
    /\ \A i, j \in 1..Len(calls.order) :
         (i < j /\ calls.order[i] \in {"rf", "xgb"}) => calls.order[j] # "cnn"
    /\ calls.rf <= 1 /\ calls.xgb <= 1 /\ calls.cnn <= 1

\* C20: once startup has finished, no step of any request changes the shared
\* model state: the artifacts' contents (mask, scaler, label classes), the
\* model and backend objects and the two readiness flags stay as they were.
C20_RequestsLeaveModelState ==
    [][(pc \in ServingPcs) =>
          UNCHANGED <<hybrid_model, cnn_runtime, CNN_READY, MODEL_READY,
                      scaler, mask, classes_, artifacts>>]_vars

\* A request in which the autoencoder backend raised has been answered and
\* the server still holds its model, its backend and both flags.
C20_Witness ==
    /\ pc = "idle" /\ NotifyOk
    /\ out.cnn_raised
    /\ CNN_READY /\ cnn_runtime # "None"
    /\ MODEL_READY /\ hybrid_model # "None"

\* The fields of a response that make up the result of a request.
ResultOf(o) ==
    [pred |-> o.pred, score |-> o.score, sev |-> o.sev, anom |-> o.anom,
     meta |-> o.meta, classifier |-> o.classifier, cnn |-> o.cnn]

\* C19: a request with the same body as the recorded one, for which the
\* backends did what they did for the recorded one, is answered with the
\* same label, score, severity, anomaly flag, metadata and diagnostics as
\* the first such request, whatever requests were handled in between.
C19_Determinism ==
    (NotifyOk /\ out.replays) => ResultOf(out) = ResultOf(replayed.result)

\* The recorded request has been answered a second time, after another
\* request had been answered in between or not.
C19_Witness ==
    /\ NotifyOk /\ out.replays
    /\ replayed.count = MaxReplays
    /\ pc = "idle"

\* The position of a block inside fhir_notify.
StageOf(p) ==
    CASE p = "classifier" -> 1 [] p = "cnn" -> 2 [] p = "decide" -> 3
      [] p = "respond" -> 4 [] OTHER -> 0

\* C21: a request that has started ends with one outcome, a response of
\* fhir_notify; until then no outcome exists, every step moves the request
\* to a later block (no block runs twice) and no backend is invoked more
\* than once.
C21_RunsToCompletionOnce ==
    /\ [](pc \in InferencePcs =>
            /\ out = NoOut
            /\ calls.rf <= 1 /\ calls.xgb <= 1 /\ calls.cnn <= 1)
    /\ [][(pc \in InferencePcs) =>
            \/ StageOf(pc') > StageOf(pc)
            \/ pc' = "idle" /\ pc = "respond" /\ out'.op = "fhir_notify"]_vars
    /\ ((pc \in InferencePcs) ~> (pc = "idle" /\ out.op = "fhir_notify"))

\* A request that went through both the classifier and the autoencoder
\* backend has been answered.
C21_Witness ==
    /\ pc = "idle" /\ NotifyOk
    /\ out.calls.rf = 1 /\ out.calls.xgb = 1 /\ out.calls.cnn = 1

\* C22: the thresholds behind every severity decision are non-negative and
\* ordered, medium <= high: the two MSE thresholds of the HTTP pipeline, and
\* the detector's sev_med and sev_high whether defaults or overrides.
C22_ThresholdsOrdered ==
    /\ NotifyOk =>
         (0 <= MSE_THRESHOLD_LOW /\ MSE_THRESHOLD_LOW <= MSE_THRESHOLD_HIGH)
    /\ AnalyzeOk =>
         (0 <= out.cfg.sev_med /\ out.cfg.sev_med <= out.cfg.sev_high)

\* C23: a successful request's result carries the metadata extracted from
\* the request; its cnn part says available exactly when the autoencoder
\* backend was invoked for this request and returned (otherwise the reported
\* error is the placeholder 0), and its classifier details are present
\* exactly when both ensembles were invoked and the classifier block did not
\* raise, in which case they are the reported label and score.
C23_MetadataAndDiagnostics ==
    /\ (NotifyOk /\ pc = "idle") =>
         /\ out.meta = req.meta /\ out.meta \in MetaValues
         /\ out.cnn.available <=> (out.calls.cnn = 1 /\ ~out.cnn_raised)
         /\ ~out.cnn.available => out.cnn.mse = 0
         /\ out.classifier.present <=>
               (out.calls.rf = 1 /\ out.calls.xgb = 1 /\ ~out.classifier_raised)
         /\ out.classifier.present =>
               (out.classifier.pred_class = out.pred
                  /\ out.classifier.confidence = out.score)
    /\ AnalyzeOk => out.meta \in MetaValues

\* A result of a request for which the ready autoencoder backend raised
\* while the classifier succeeded.
C23_Witness ==
    /\ NotifyOk /\ pc = "idle"
    /\ CNN_READY /\ out.cnn_raised /\ ~out.cnn.available
    /\ out.classifier.present /\ out.meta = "m2"

\* The alert levels of server.py's module docstring.
DocumentedHigh(o) == o.pred \in attack_classes \/ o.cnn.mse >= MSE_THRESHOLD_HIGH
DocumentedMedium(o) ==
    \/ o.pred \in suspicious_classes
    \/ (MSE_THRESHOLD_LOW <= o.cnn.mse /\ o.cnn.mse < MSE_THRESHOLD_HIGH)

\* C24: every response has the documented alert level: HIGH for a known
\* attack class or MSE >= 0.15, otherwise MEDIUM for a suspicious class or
\* 0.05 <= MSE < 0.15, otherwise LOW.
C24_DocumentedAlertLevels ==
    NotifyOk =>
        out.sev = IF DocumentedHigh(out) THEN "HIGH"
                  ELSE IF DocumentedMedium(out) THEN "MEDIUM"
                  ELSE "LOW"

\* C25: a response whose predicted label is a known attack class with
\* confidence above 0.7 has severity HIGH, whatever the reconstruction error
\* and whether or not the autoencoder backend is available.
C25_AttackLabelOverride ==
    (NotifyOk /\ out.pred \in attack_classes /\ out.score > ATTACK_CONFIDENCE)
        => out.sev = "HIGH"

\* The override decides alone: the backend ran and its error is in the
\* MEDIUM band.
C25_Witness ==
    /\ NotifyOk
    /\ out.pred \in attack_classes /\ out.score > ATTACK_CONFIDENCE
    /\ out.cnn.available
    /\ out.cnn.mse > MSE_THRESHOLD_LOW /\ out.cnn.mse <= MSE_THRESHOLD_HIGH
    /\ out.sev = "HIGH"

C27_ClassificationOutput ==
    /\ (out.op = "predict_with_confidence" /\ ~out.raises) =>
          LET v == out.probs
              k == out.predicted_indices + 1
          IN  /\ k \in 1..Len(v)
              /\ \A j \in 1..Len(v) : v[j] <= v[k]
              /\ \A j \in 1..(k - 1) : v[j] < v[k]
              /\ out.confidences = v[k]
    /\ (NotifyOk /\ out.classifier.present) =>
          LET c == out.classifier
          IN  /\ c.class_names = classes_
              /\ c.pred_index + 1 \in 1..Len(c.class_names)
              /\ out.pred = c.class_names[c.pred_index + 1]
              /\ out.pred = c.pred_class
              /\ out.score = c.confidence

\* The largest fused probability is held by more than one class and the
\* lowest of their indices is the answer.
C27_Witness ==
    /\ out.op = "predict_with_confidence" /\ ~out.raises
    /\ \E j \in 1..Len(out.probs) :
         /\ j > out.predicted_indices + 1
         /\ out.probs[j] = out.confidences

\* C28: every response of the HTTP pipeline with severity HIGH is flagged
\* anomalous, whatever the class, the confidence, the readiness of the
\* autoencoder backend and the outcome of its inference.
C28_HighIsAnomalous ==
    (NotifyOk /\ out.sev = "HIGH") => out.anom

\* HIGH that comes from the reconstruction error alone: the label is not an
\* attack class.
C28_Witness ==
    /\ NotifyOk /\ out.sev = "HIGH" /\ out.anom
    /\ out.pred \notin attack_classes
    /\ out.cnn.available /\ out.cnn.mse > MSE_THRESHOLD_HIGH

\* C29: a request whose classifier is not ready or raises is answered with
\* class "Unknown" and confidence 0; its severity is MEDIUM or HIGH, never
\* LOW, and it is flagged anomalous only if the autoencoder backend ran and
\* its reconstruction error is above the high threshold.
C29_ClassifierFallback ==
    (out.op = "fhir_notify" /\ "classifier_raised" \in DOMAIN out
        /\ (~MODEL_READY \/ out.classifier_raised)) =>
        /\ out.status = 200
        /\ out.pred = "Unknown" /\ out.score = 0
        /\ ~out.classifier.present
        /\ out.sev \in {"MEDIUM", "HIGH"}
        /\ out.anom => (out.cnn.available /\ out.cnn.mse > MSE_THRESHOLD_HIGH)
        /\ out.sev = "HIGH" => out.anom

\* The classifier raised and there is no reconstruction error to go by:
\* the fallback label alone makes the severity MEDIUM.
C29_Witness ==
    /\ NotifyOk /\ MODEL_READY /\ out.classifier_raised
    /\ out.pred = "Unknown" /\ out.score = 0
    /\ ~out.cnn.available
    /\ out.sev = "MEDIUM" /\ ~out.anom

\* C30: the score of a detector result is 1 - P(normal class) when the
\* configured normal class is among the encoder's classes and
\* 1 - max(probabilities) otherwise; it lies in [0, 1]; and the severity is
\* the lookup of the score against sev_med and sev_high.
C30_DetectorScoring ==
    AnalyzeOk =>
        /\ IF InSeq(out.classes, out.cfg.normal_class)
           THEN LET idx == IndexOf(out.classes, out.cfg.normal_class)
                IN  /\ idx <= Len(out.prob_vec)
                    /\ out.score = 1000 - out.prob_vec[idx]
           ELSE out.score = 1000 - SeqMax(out.prob_vec)
        /\ out.score \in 0..1000
        /\ out.sev = TierOf(out.score, out.cfg.sev_med, out.cfg.sev_high)

====
